---- MODULE Spec2Model ----
(***************************************************************************)
(* Contract comparison pipeline (klerrie/assignment_4).                    *)
(*                                                                         *)
(* Two parts:                                                              *)
(*   - the ContractChangeOutput model of src/src/models.py, as operators   *)
(*     over strings (sequences of characters) and JSON values;             *)
(*   - main() of src/src/main.py with the three stages it calls            *)
(*     (ImageParser.parse_image, ContextualizationAgent.analyze_documents, *)
(*     ExtractionAgent.extract_changes) and the tracing of                 *)
(*     src/src/tracing.py, as a state machine, one instance per run.       *)
(***************************************************************************)
EXTENDS Integers, Sequences, FiniteSets, TLC

(***************************************************************************)
(* Strings                                                                 *)
(***************************************************************************)

\* Characters str.strip() removes, and one it keeps.
Whitespace == {" ", "\t"}

SetMin(S) == CHOOSE m \in S : \A k \in S : m <= k

SetMax(S) == CHOOSE m \in S : \A k \in S : m >= k

\* The positions of s that hold a non-whitespace character.
Solid(s) == {i \in 1..Len(s) : s[i] \notin Whitespace}

\* str.strip(): s without its leading and trailing whitespace.
Strip(s) == IF Solid(s) = {} THEN <<>> ELSE SubSeq(s, SetMin(Solid(s)), SetMax(Solid(s)))

\* [s.strip() for s in v]
StripAll(v) == [i \in 1..Len(v) |-> Strip(v[i])]

(***************************************************************************)
(* JSON values: [t |-> tag, v |-> payload].  "list" holds a sequence of    *)
(* strings, "str" a string, "other" any value of another JSON type, and    *)
(* "missing" marks a key the mapping does not have.                        *)
(***************************************************************************)

JList(v) == [t |-> "list", v |-> v]

JStr(v) == [t |-> "str", v |-> v]

JOther == [t |-> "other", v |-> <<>>]

JMissing == [t |-> "missing", v |-> <<>>]

(***************************************************************************)
(* ContractChangeOutput (src/src/models.py)                                *)
(***************************************************************************)

\* Field(min_length=1) of the two list fields.
MinItems == 1

\* Field(min_length=50) of summary_of_the_change, and the validator's limit.
MinSummaryLen == 50

Raised(msg) == [raised |-> TRUE, msg |-> msg, value |-> <<>>]

Returned(value) == [raised |-> FALSE, msg |-> "", value |-> value]

\* A validator that drops the blank elements instead of refusing the list.
validate_sections_changed_dropping(v) ==
    IF Len(v) = 0
    THEN Raised("sections_changed must contain at least one section")
    ELSE Returned(StripAll(SelectSeq(v, LAMBDA s : Strip(s) # <<>>)))

\* @field_validator('sections_changed')
validate_sections_changed(v) ==
    IF Len(v) = 0
    THEN Raised("sections_changed must contain at least one section")
    ELSE IF \E i \in 1..Len(v) : Strip(v[i]) = <<>>
         THEN Raised("Each section name must be non-empty")
         ELSE Returned(StripAll(v))

\* @field_validator('topics_touched')
validate_topics_touched(v) ==
    IF Len(v) = 0
    THEN Raised("topics_touched must contain at least one topic")
    ELSE IF \E i \in 1..Len(v) : Strip(v[i]) = <<>>
         THEN Raised("Each topic must be non-empty")
         ELSE Returned(StripAll(v))

\* A validator that returns the summary as given.
validate_summary_unstripped(v) ==
    IF Len(Strip(v)) < MinSummaryLen
    THEN Raised("summary_of_the_change must be at least 50 characters long")
    ELSE Returned(v)

\* A validator that measures the summary as given.
validate_summary_raw_length(v) ==
    IF Len(v) < MinSummaryLen
    THEN Raised("summary_of_the_change must be at least 50 characters long")
    ELSE Returned(Strip(v))

\* A validator that refuses a summary of exactly the minimum length.
validate_summary_exclusive(v) ==
    IF Len(Strip(v)) <= MinSummaryLen
    THEN Raised("summary_of_the_change must be at least 50 characters long")
    ELSE Returned(Strip(v))

\* @field_validator('summary_of_the_change')
validate_summary(v) ==
    IF Len(Strip(v)) < MinSummaryLen
    THEN Raised("summary_of_the_change must be at least 50 characters long")
    ELSE Returned(Strip(v))

FieldError(loc, type, msg) == [ok |-> FALSE, loc |-> loc, type |-> type, msg |-> msg, value |-> <<>>]

FieldOk(loc, value) == [ok |-> TRUE, loc |-> loc, type |-> "", msg |-> "", value |-> value]

\* One List[str] field: required, a list, at least MinItems items, then the
\* field validator (an "after" validator: it runs on the value the type and
\* length checks passed).  checked is what the validator gives for val.v.
ListField(loc, val, checked) ==
    IF val.t = "missing" THEN FieldError(loc, "missing", "Field required")
    ELSE IF val.t # "list" THEN FieldError(loc, "list_type", "Input should be a valid list")
    ELSE IF Len(val.v) < MinItems
         THEN FieldError(loc, "too_short", "List should have at least 1 item")
    ELSE IF checked.raised THEN FieldError(loc, "value_error", checked.msg)
    ELSE FieldOk(loc, checked.value)

\* The str field: required, a string, at least MinSummaryLen characters as
\* given, then the field validator.
StrField(loc, val, checked) ==
    IF val.t = "missing" THEN FieldError(loc, "missing", "Field required")
    ELSE IF val.t # "str" THEN FieldError(loc, "string_type", "Input should be a valid string")
    ELSE IF Len(val.v) < MinSummaryLen
         THEN FieldError(loc, "string_too_short", "String should have at least 50 characters")
    ELSE IF checked.raised THEN FieldError(loc, "value_error", checked.msg)
    ELSE FieldOk(loc, checked.value)

sections_changed(data) ==
    ListField("sections_changed", data.sections_changed,
              validate_sections_changed(data.sections_changed.v))

topics_touched(data) ==
    ListField("topics_touched", data.topics_touched,
              validate_topics_touched(data.topics_touched.v))

summary_of_the_change(data) ==
    StrField("summary_of_the_change", data.summary_of_the_change,
             validate_summary(data.summary_of_the_change.v))

\* A model configured with extra="allow": a key the model does not declare
\* is kept on the record.
ContractChangeOutput_allowing_extra(data) ==
    LET fs == {sections_changed(data), topics_touched(data), summary_of_the_change(data)}
        errs == {[loc |-> f.loc, type |-> f.type, msg |-> f.msg] : f \in {g \in fs : ~g.ok}}
    IN  [errors |-> errs,
         record |-> IF errs # {}
                    THEN <<>>
                    ELSE IF data.extra
                    THEN <<[sections_changed |-> sections_changed(data).value,
                            topics_touched |-> topics_touched(data).value,
                            summary_of_the_change |-> summary_of_the_change(data).value,
                            extra |-> TRUE]>>
                    ELSE <<[sections_changed |-> sections_changed(data).value,
                            topics_touched |-> topics_touched(data).value,
                            summary_of_the_change |-> summary_of_the_change(data).value]>>]

\* A constructor that takes the values as given, checking nothing
\* (model_construct).
ContractChangeOutput_unchecked(data) ==
    [errors |-> {},
     record |-> <<[sections_changed |-> data.sections_changed.v,
                   topics_touched |-> data.topics_touched.v,
                   summary_of_the_change |-> data.summary_of_the_change.v]>>]

\* ContractChangeOutput(**data): every field is validated, the errors of all
\* fields are collected into one ValidationError; keys the model does not
\* declare are ignored.  record is <<>> when the constructor raised.
ContractChangeOutput(data) ==
    LET fs == {sections_changed(data), topics_touched(data), summary_of_the_change(data)}
        errs == {[loc |-> f.loc, type |-> f.type, msg |-> f.msg] : f \in {g \in fs : ~g.ok}}
    IN  [errors |-> errs,
         record |-> IF errs = {}
                    THEN <<[sections_changed |-> sections_changed(data).value,
                            topics_touched |-> topics_touched(data).value,
                            summary_of_the_change |-> summary_of_the_change(data).value]>>
                    ELSE <<>>]

\* BaseModel.model_dump(): the dictionary of the record's fields.
model_dump(record) == [k \in DOMAIN record |-> record[k]]

(***************************************************************************)
(* Inputs of the validation specification                                  *)
(***************************************************************************)

\* Longest sections_changed list drawn.
MaxSections == 2

\* Longest topics_touched list drawn.
MaxTopics == 1

\* Most whitespace characters put on either side of a summary.
MaxPad == 1

\* n copies of a whitespace character.
Pad(n) == [i \in 1..n |-> " "]

\* A string of n characters with no whitespace at either end and, when it
\* is long enough, one whitespace character inside.
Body(n) == [i \in 1..n |-> IF i = 2 /\ n >= 3 THEN " " ELSE "x"]

Elements == {<<>>, <<" ">>, <<"x">>, <<"\t", "x", " ">>}

ListsUpTo(n) == UNION {[1..k -> Elements] : k \in 0..n}

BodyLengths == {0, MinSummaryLen - 1, MinSummaryLen}

Summaries == {Pad(l) \o Body(n) \o Pad(t) : l \in 0..MaxPad, t \in 0..MaxPad, n \in BodyLengths}

Candidates ==
    [sections_changed : {JList(v) : v \in ListsUpTo(MaxSections)} \cup {JMissing, JOther},
     topics_touched : {JList(v) : v \in ListsUpTo(MaxTopics)} \cup {JMissing, JOther},
     summary_of_the_change : {JStr(v) : v \in Summaries} \cup {JMissing, JOther},
     extra : BOOLEAN]

(***************************************************************************)
(* Exceptions: [type, msg], msg the parts of str(e), outermost first.      *)
(***************************************************************************)

Exception(type, msg) == [type |-> type, msg |-> msg]

\* What a failing sink call raises.
SinkError == Exception("SinkError", <<"sink call failed">>)

\* What a failing chat.completions.create raises.
APIError == Exception("APIError", <<"provider error">>)

Raise(e) == [exc |-> <<e>>, value |-> <<>>]

Return(v) == [exc |-> <<>>, value |-> <<v>>]

(***************************************************************************)
(* Tracing (src/src/tracing.py)                                            *)
(*                                                                         *)
(* A sink is "disabled" (tracing_manager.client is None), "working" (a     *)
(* client whose calls return) or "faulty" (a client whose calls may        *)
(* raise).  A trace object is a "dummy" (DummyTrace) or a "wrapper"        *)
(* (TraceWrapper around a Langfuse span).                                  *)
(***************************************************************************)

SinkModes == {"disabled", "working", "faulty"}

\* What a call into Langfuse does: it returns, it raises AttributeError
\* (this version of the package lacks the method), or it raises another
\* Exception.
Outcomes == {"returns", "AttributeError", "Exception"}

LangfuseCall(outcome, value) ==
    IF outcome = "returns" THEN Return(value) ELSE Raise(Exception(outcome, <<"langfuse">>))

\* except <types>: the clause takes what res raised.  Every exception of
\* the model is an Exception.
Catches(res, types) ==
    res.exc # <<>> /\ ("Exception" \in types \/ res.exc[1].type \in types)

\* tracing_manager.client: None, or a Langfuse client and what its methods
\* do.
NoClient ==
    [present |-> FALSE, start_as_current_span |-> "returns",
     start_as_current_observation |-> "returns", update_current_trace |-> "returns"]

Clients ==
    {NoClient} \cup [present : {TRUE}, start_as_current_span : Outcomes,
                     start_as_current_observation : Outcomes,
                     update_current_trace : Outcomes]

\* The body of one attempt of create_trace (lines 85-94, 98-105): open the
\* span, set the session on the trace, wrap the span.
OpenSpan(start, update) ==
    IF LangfuseCall(start, "langfuse").exc # <<>> THEN LangfuseCall(start, "langfuse")
    ELSE IF LangfuseCall(update, "none").exc # <<>> THEN LangfuseCall(update, "none")
    ELSE Return("wrapper")

\* TracingManager.create_trace (lines 57-121).
TracingManager_create_trace(client) ==
    IF ~client.present THEN Return("dummy")
    ELSE LET attempt == OpenSpan(client.start_as_current_span, client.update_current_trace)
             fallback == OpenSpan(client.start_as_current_observation,
                                  client.update_current_trace)
         IN  IF Catches(attempt, {"AttributeError"})
             THEN IF Catches(fallback, {"AttributeError", "Exception"})
                  THEN Return("dummy")
                  ELSE fallback
             ELSE IF Catches(attempt, {"Exception"}) THEN Return("dummy")
             ELSE attempt

\* The client of a run: absent when the sink is disabled; clientRaises
\* says whether opening the span fails.
ClientOf(mode, clientRaises) ==
    IF mode = "disabled" THEN NoClient
    ELSE [present |-> TRUE,
          start_as_current_span |-> IF clientRaises THEN "Exception" ELSE "returns",
          start_as_current_observation |-> "returns", update_current_trace |-> "returns"]

\* create_trace as the runs call it: the trace object it returns.
create_trace(mode, clientRaises) ==
    TracingManager_create_trace(ClientOf(mode, clientRaises)).value[1]

\* The methods create_span and create_generation look for.
SpanMethods == {"span", "start_span", "generation", "start_generation"}

\* A trace object handed to create_span or create_generation: a
\* DummyTrace, a TraceWrapper, or a Langfuse object; methods and outcome
\* are those of the Langfuse object (the wrapped span_obj of a wrapper).
DummyTraceObject == [kind |-> "dummy", methods |-> {}, outcome |-> "returns"]

TraceObjects ==
    {DummyTraceObject} \cup [kind : {"wrapper", "langfuse"}, methods : SUBSET SpanMethods,
                             outcome : Outcomes]

\* hasattr(trace, name): the class TraceWrapper defines the four methods.
hasattr(trace, name) ==
    CASE trace.kind = "wrapper" -> name \in SpanMethods
      [] trace.kind = "langfuse" -> name \in trace.methods
      [] OTHER -> name \in {"span", "generation"}

\* TraceWrapper.span / generation / start_span / start_generation (lines
\* 225-251): delegate to span_obj, or return self.
TraceWrapper_call(trace, name) ==
    LET alternative == CASE name = "span" -> "start_span"
                         [] name = "generation" -> "start_generation"
                         [] OTHER -> name
    IN  IF name \in trace.methods \/ alternative \in trace.methods
        THEN LangfuseCall(trace.outcome, "langfuse")
        ELSE Return("wrapper")

\* trace.<name>(...) on an object that has the method.
MethodCall(trace, name) ==
    CASE trace.kind = "wrapper" -> TraceWrapper_call(trace, name)
      [] trace.kind = "langfuse" -> LangfuseCall(trace.outcome, "langfuse")
      [] OTHER -> Return("dummy")

\* The try block of create_span and of create_generation (lines 146-162,
\* 193-213): the first of the two methods the object has.
FirstMethod(trace, name, alternative) ==
    IF hasattr(trace, name) THEN MethodCall(trace, name)
    ELSE IF hasattr(trace, alternative) THEN MethodCall(trace, alternative)
    ELSE Return("dummy")

\* A create_span without its except clause.
TracingManager_create_span_unguarded(trace) ==
    IF trace.kind = "dummy" THEN Return("dummy")
    ELSE FirstMethod(trace, "span", "start_span")

\* TracingManager.create_span (lines 123-164).
TracingManager_create_span(trace) ==
    IF trace.kind = "dummy" THEN Return("dummy")
    ELSE IF Catches(FirstMethod(trace, "span", "start_span"), {"Exception"})
         THEN Return("dummy")
         ELSE FirstMethod(trace, "span", "start_span")

\* TracingManager.create_generation (lines 166-215).
TracingManager_create_generation(trace) ==
    IF trace.kind = "dummy" THEN Return("dummy")
    ELSE IF Catches(FirstMethod(trace, "generation", "start_generation"), {"Exception"})
         THEN Return("dummy")
         ELSE FirstMethod(trace, "generation", "start_generation")

\* The trace object of a run, for create_generation: a wrapper's span has
\* the methods; flt says whether its generation call fails.
TraceOf(trace, flt) ==
    IF trace = "dummy" THEN DummyTraceObject
    ELSE [kind |-> "wrapper", methods |-> SpanMethods,
          outcome |-> IF "generation" \in flt THEN "Exception" ELSE "returns"]

\* A DummyTrace that lacks the score method.
DummyTrace_without_score(name) ==
    name \in {"workflow_success", "extraction_quality", "contextualization_quality"}

\* DummyTrace.span / generation / score: do nothing, never raise.
DummyTraceRaises(name) == FALSE

\* TraceWrapper.span / score: delegate to the Langfuse span; what the span
\* raises reaches the caller.  flt is the set of calls the client fails.
TraceWrapperRaises(name, flt) == name \in flt

\* trace.span(name=...) / trace.score(name=...): TRUE when the call raises.
TraceCallRaises(trace, name, flt) ==
    IF trace = "dummy" THEN DummyTraceRaises(name) ELSE TraceWrapperRaises(name, flt)

\* create_generation as the stages call it: TRUE when the call raises.
create_generation(trace, flt) ==
    TracingManager_create_generation(TraceOf(trace, flt)).exc # <<>>

(***************************************************************************)
(* ImageParser.validate_image.  A file is what the file system says of a   *)
(* path: whether it exists, its suffix (Path.suffix, a character           *)
(* sequence) and its size in bytes.                                        *)
(***************************************************************************)

Uppercase == <<"A", "B", "C", "D", "E", "F", "G", "H", "I", "J", "K", "L", "M",
               "N", "O", "P", "Q", "R", "S", "T", "U", "V", "W", "X", "Y", "Z">>

Lowercase == <<"a", "b", "c", "d", "e", "f", "g", "h", "i", "j", "k", "l", "m",
               "n", "o", "p", "q", "r", "s", "t", "u", "v", "w", "x", "y", "z">>

\* str.lower()
lower(s) ==
    [i \in 1..Len(s) |->
        IF \E k \in 1..Len(Uppercase) : Uppercase[k] = s[i]
        THEN Lowercase[CHOOSE k \in 1..Len(Uppercase) : Uppercase[k] = s[i]]
        ELSE s[i]]

SUPPORTED_FORMATS ==
    {<<".", "j", "p", "g">>, <<".", "j", "p", "e", "g">>, <<".", "p", "n", "g">>,
     <<".", "g", "i", "f">>, <<".", "w", "e", "b", "p">>}

MAX_FILE_SIZE == 10 * 1024 * 1024

\* A validate_image that compares the suffix as it is written.
validate_image_case_sensitive(image_path, file) ==
    IF ~file.exists THEN <<FALSE, <<"Image file not found", image_path>>>>
    ELSE IF file.suffix \notin SUPPORTED_FORMATS
    THEN <<FALSE, <<"Unsupported image format">> \o file.suffix>>
    ELSE IF file.size > MAX_FILE_SIZE THEN <<FALSE, <<"Image file too large">>>>
    ELSE IF file.size = 0 THEN <<FALSE, <<"Image file is empty">>>>
    ELSE <<TRUE, <<>>>>

\* ImageParser.validate_image: (is_valid, error_message), the message as
\* its parts, <<>> for None.
validate_image(image_path, file) ==
    IF ~file.exists THEN <<FALSE, <<"Image file not found", image_path>>>>
    ELSE IF lower(file.suffix) \notin SUPPORTED_FORMATS
    THEN <<FALSE, <<"Unsupported image format">> \o file.suffix>>
    ELSE IF file.size > MAX_FILE_SIZE THEN <<FALSE, <<"Image file too large">>>>
    ELSE IF file.size = 0 THEN <<FALSE, <<"Image file is empty">>>>
    ELSE <<TRUE, <<>>>>

\* How far around 0 and around MAX_FILE_SIZE the sizes are drawn.
SizeMargin == 1

Sizes ==
    (0..SizeMargin) \cup ((MAX_FILE_SIZE - SizeMargin)..(MAX_FILE_SIZE + SizeMargin))

Suffixes ==
    SUPPORTED_FORMATS \cup
    {<<".", "P", "N", "G">>, <<".", "J", "p", "g">>, <<".", "W", "E", "B", "P">>,
     <<".", "b", "m", "p">>, <<".", "p", "d", "f">>, <<".", "p", "n">>, <<>>}

Files == [exists : BOOLEAN, suffix : Suffixes, size : Sizes]

(***************************************************************************)
(* Stage bodies after the collaborator call has come back.                 *)
(* resp.ok says whether chat.completions.create returned; resp.content is  *)
(* response.choices[0].message.content.                                    *)
(***************************************************************************)

\* ImageParser.parse_image, lines 153-185.
parse_image(image_path, resp, trace, flt) ==
    LET handler(e) ==
            IF TraceCallRaises(trace, "error", flt) THEN Raise(SinkError)
            ELSE Raise(Exception("RuntimeError", <<"Failed to parse image", image_path>> \o e.msg))
    IN  IF ~resp.ok THEN handler(APIError)
        ELSE IF create_generation(trace, flt) THEN handler(SinkError)
        ELSE IF TraceCallRaises(trace, "extraction_quality", flt) THEN handler(SinkError)
        ELSE Return(resp.content)

\* A slice that keeps the last n characters.
Slice_tail(text, n) == SubSeq(text, IF Len(text) < n THEN 1 ELSE Len(text) - n + 1, Len(text))

\* text[:n]
Slice(text, n) == SubSeq(text, 1, IF Len(text) < n THEN Len(text) ELSE n)

\* The characters of each document the contextualization request takes.
ContextualizationCap == 8000

\* The characters of each document the extraction request takes.
ExtractionCap == 6000

\* A user message is the sections of its template: the heading, the text
\* put under it, and the template text that follows the text on its line.
Section(heading, body, trailer) == [heading |-> heading, body |-> body, trailer |-> trailer]

\* ContextualizationAgent.analyze_documents, lines 71-84: user_prompt.
contextualization_user_prompt(original_text, amendment_text) ==
    <<Section("ORIGINAL CONTRACT", Slice(original_text, ContextualizationCap),
              "  # Truncate if too long"),
      Section("AMENDED CONTRACT", Slice(amendment_text, ContextualizationCap),
              "  # Truncate if too long")>>

\* The text extract_changes puts in place of a missing analysis.
NoAnalysisProvided ==
    <<"N", "o", " ", "a", "n", "a", "l", "y", "s", "i", "s", " ",
      "p", "r", "o", "v", "i", "d", "e", "d">>

\* An extract_changes that cuts the analysis as it cuts the documents.
extraction_user_prompt_cutting(contextualization_output, original_text, amendment_text) ==
    <<Section("CONTEXTUALIZATION ANALYSIS (from Agent 1)",
              IF "analysis" \in DOMAIN contextualization_output
              THEN Slice(contextualization_output.analysis, ExtractionCap)
              ELSE NoAnalysisProvided, ""),
      Section("ORIGINAL CONTRACT", Slice(original_text, ExtractionCap),
              "  # Truncate if too long"),
      Section("AMENDED CONTRACT", Slice(amendment_text, ExtractionCap),
              "  # Truncate if too long")>>

\* An extract_changes that leaves the place of a missing analysis empty.
extraction_user_prompt_blank(contextualization_output, original_text, amendment_text) ==
    <<Section("CONTEXTUALIZATION ANALYSIS (from Agent 1)",
              IF "analysis" \in DOMAIN contextualization_output
              THEN contextualization_output.analysis ELSE <<>>, ""),
      Section("ORIGINAL CONTRACT", Slice(original_text, ExtractionCap),
              "  # Truncate if too long"),
      Section("AMENDED CONTRACT", Slice(amendment_text, ExtractionCap),
              "  # Truncate if too long")>>

\* ExtractionAgent.extract_changes, lines 79-95: user_prompt.
extraction_user_prompt(contextualization_output, original_text, amendment_text) ==
    <<Section("CONTEXTUALIZATION ANALYSIS (from Agent 1)",
              IF "analysis" \in DOMAIN contextualization_output
              THEN contextualization_output.analysis ELSE NoAnalysisProvided, ""),
      Section("ORIGINAL CONTRACT", Slice(original_text, ExtractionCap),
              "  # Truncate if too long"),
      Section("AMENDED CONTRACT", Slice(amendment_text, ExtractionCap),
              "  # Truncate if too long")>>

\* An analyze_documents that reports the lengths of what it sent.
analyze_documents_sent_lengths(original_text, amendment_text, resp, trace, flt) ==
    Return([analysis |-> resp.content,
            original_length |-> Len(Slice(original_text, ContextualizationCap)),
            amendment_length |-> Len(Slice(amendment_text, ContextualizationCap)),
            usage |-> resp.usage])

\* ContextualizationAgent.analyze_documents, lines 98-139.
analyze_documents(original_text, amendment_text, resp, trace, flt) ==
    LET handler(e) ==
            IF TraceCallRaises(trace, "error", flt) THEN Raise(SinkError)
            ELSE Raise(Exception("RuntimeError", <<"Contextualization agent failed">> \o e.msg))
    IN  IF ~resp.ok THEN handler(APIError)
        ELSE IF create_generation(trace, flt) THEN handler(SinkError)
        ELSE IF TraceCallRaises(trace, "contextualization_quality", flt) THEN handler(SinkError)
        ELSE Return([analysis |-> resp.content,
                     original_length |-> Len(original_text),
                     amendment_length |-> Len(amendment_text),
                     usage |-> resp.usage])

\* A parser that answers an empty object for a text that is no JSON.
JsonLoads_lenient(content) == Return([object |-> TRUE, data |-> content.data])

\* json.loads(extraction_output): the text of the collaborator is a JSON
\* object, another JSON value, or no JSON at all.
JsonLoads(content) ==
    IF content.syntax = "invalid" THEN Raise(Exception("JSONDecodeError", <<"Expecting value">>))
    ELSE Return([object |-> content.syntax = "object", data |-> content.data])

\* str(e) of a pydantic ValidationError: the fields in error, in field order.
ValidationMessage(errors) ==
    LET locs == {e.loc : e \in errors}
        part(f) == IF f \in locs THEN <<f>> ELSE <<>>
    IN  <<"validation error">> \o part("sections_changed") \o part("topics_touched")
            \o part("summary_of_the_change")

\* ExtractionAgent.extract_changes, lines 110-178.  validated counts the
\* ContractChangeOutput constructions.
extract_changes(resp, trace, flt) ==
    LET out(r, n) == [exc |-> r.exc, value |-> r.value, validated |-> n]
        handler(e, n) ==
            IF TraceCallRaises(trace, "error", flt) THEN out(Raise(SinkError), n)
            ELSE out(Raise(Exception("RuntimeError", <<"Extraction agent failed">> \o e.msg)), n)
        parsed == JsonLoads(resp.content)
        model == ContractChangeOutput(parsed.value[1].data)
    IN  IF ~resp.ok THEN handler(APIError, 0)
        ELSE IF create_generation(trace, flt) THEN handler(SinkError, 0)
        ELSE IF parsed.exc # <<>>
        THEN IF TraceCallRaises(trace, "validation_error", flt) THEN handler(SinkError, 0)
             ELSE handler(Exception("ValueError",
                            <<"Failed to parse agent output as JSON">> \o parsed.exc[1].msg), 0)
        ELSE IF ~parsed.value[1].object
        THEN IF TraceCallRaises(trace, "pydantic_validation_error", flt) THEN handler(SinkError, 0)
             ELSE handler(Exception("ValueError",
                            <<"Pydantic validation failed", "argument after ** must be a mapping">>), 0)
        ELSE IF model.record = <<>>
        THEN IF TraceCallRaises(trace, "pydantic_validation_error", flt) THEN handler(SinkError, 1)
             ELSE handler(Exception("ValueError",
                            <<"Pydantic validation failed">> \o ValidationMessage(model.errors)), 1)
        ELSE IF TraceCallRaises(trace, "validation", flt) THEN handler(SinkError, 1)
        ELSE IF TraceCallRaises(trace, "extraction_quality", flt) THEN handler(SinkError, 1)
        ELSE out(Return(model.record[1]), 1)

(***************************************************************************)
(* Runs of main()                                                          *)
(***************************************************************************)

\* Runs modelled side by side.
Runs == {1, 2}

Docs == {"original", "amendment"}

StageOf(doc) == IF doc = "original" THEN "parse_original" ELSE "parse_amendment"

\* argparse: the positional image paths and the optional identifiers
\* (<<>> is None).
Args == [original_image |-> "original.png", amendment_image |-> "amendment.png",
         session_id |-> <<>>, contract_id |-> <<<<"arg", 0, 7>>>>, output |-> <<>>]

\* The command lines the program is run with: the one above, and one with
\* --output, a session id and an empty contract id (an identifier is a
\* triple, the empty string is <<>>).
Invocations ==
    {Args,
     [Args EXCEPT !.session_id = <<<<"arg", 0, 3>>>>, !.contract_id = <<<<>>>>,
                  !.output = <<"out.json">>]}

\* Python's (value or default) on an optional string.
OrDefault(value, default) ==
    IF value # <<>> /\ value[1] # <<>> THEN value[1] ELSE default

ImagePath(doc) == IF doc = "original" THEN Args.original_image ELSE Args.amendment_image

\* str(uuid.uuid4())
Uuid4(r, n) == <<"uuid", r, n>>

\* What the vision collaborator reads from each image.
DocText(doc) == IF doc = "original" THEN <<"3", "0", " ", "d", "a", "y", "s">>
                ELSE <<"4", "5", " ", "d", "a", "y", "s">>

AnalysisText == <<"3", "0", "-", ">", "4", "5">>

Usage == [prompt_tokens |-> 7, completion_tokens |-> 5, total_tokens |-> 12]

NoData == [sections_changed |-> JMissing, topics_touched |-> JMissing,
           summary_of_the_change |-> JMissing, extra |-> FALSE]

Object(sec, top, sum, extra) ==
    [sections_changed |-> sec, topics_touched |-> top, summary_of_the_change |-> sum,
     extra |-> extra]

\* The JSON objects the extraction collaborator answers with.
ExtractionObjects ==
    { Object(JList(<<<<"x">>>>), JList(<<<<"x">>>>), JStr(Body(MinSummaryLen)), FALSE),
      Object(JList(<<<<"\t", "x", " ">>, <<"x">>>>), JList(<<<<"x">>>>),
             JStr(Pad(1) \o Body(MinSummaryLen) \o Pad(1)), TRUE),
      Object(JList(<<>>), JList(<<<<"x">>>>), JStr(Body(MinSummaryLen)), FALSE),
      Object(JList(<<<<"x">>>>), JList(<<<<"x">>, <<" ">>>>), JStr(Body(MinSummaryLen)), FALSE),
      Object(JList(<<<<"x">>>>), JList(<<<<"x">>>>),
             JStr(Pad(1) \o Body(MinSummaryLen - 1) \o Pad(1)), FALSE),
      Object(JList(<<<<"x">>>>), JList(<<<<"x">>>>), JMissing, FALSE),
      Object(JOther, JList(<<<<"x">>>>), JStr(Body(MinSummaryLen)), FALSE) }

\* The texts the extraction collaborator answers with.
ExtractionContents ==
    {[syntax |-> "invalid", data |-> NoData], [syntax |-> "array", data |-> NoData]}
        \cup {[syntax |-> "object", data |-> d] : d \in ExtractionObjects}

ExtractionResponses ==
    {[ok |-> FALSE, content |-> [syntax |-> "invalid", data |-> NoData], usage |-> Usage]}
        \cup {[ok |-> TRUE, content |-> c, usage |-> Usage] : c \in ExtractionContents}

DefaultExtraction ==
    [ok |-> TRUE,
     content |-> [syntax |-> "object",
                  data |-> Object(JList(<<<<"x">>>>), JList(<<<<"x">>>>),
                                  JStr(Body(MinSummaryLen)), FALSE)],
     usage |-> Usage]

\* What is wrong with an image that fails validate_image: there is no such
\* file, or the file is empty.
Defects == {"missing", "empty"}

\* The calls a run makes have answers; a call the run never comes to has
\* none, which is written as the default answer.
Answered(sc) ==
    LET parsed(doc) == sc.image_ok[doc] /\ sc.vision[doc]
        both == parsed("original") /\ parsed("amendment")
    IN  /\ \A doc \in Docs : ~sc.image_ok[doc] => sc.vision[doc]
        /\ ~parsed("original") => sc.image_ok["amendment"] /\ sc.vision["amendment"]
        /\ ~both => sc.ctx
        /\ ~(both /\ sc.ctx) => sc.ext = DefaultExtraction
        /\ (\A doc \in Docs : sc.image_ok[doc]) => sc.defect = "missing"

\* What the world answers in one run: whether each image passes
\* validate_image, and what each collaborator call comes back with.
Scenarios ==
    {sc \in [args : Invocations, image_ok : [Docs -> BOOLEAN], defect : Defects,
             vision : [Docs -> BOOLEAN], ctx : BOOLEAN, ext : ExtractionResponses] :
        Answered(sc)}

\* The file the file system shows for an image of the scenario.
ImageFile(sc, doc) ==
    IF sc.image_ok[doc] THEN [exists |-> TRUE, suffix |-> <<".", "p", "n", "g">>, size |-> 1]
    ELSE IF sc.defect = "missing"
    THEN [exists |-> FALSE, suffix |-> <<".", "p", "n", "g">>, size |-> 0]
    ELSE [exists |-> TRUE, suffix |-> <<".", "p", "n", "g">>, size |-> 0]

VARIABLES
    sink,       \* per run: the mode of tracing_manager's client
    scenario,   \* per run: what the world answers
    run,        \* per run: the state of main()
    vIn,        \* validation: the candidate handed to ContractChangeOutput
    vOut,       \* validation: what the constructor gave, <<>> before the call
    vpc,        \* validation: "input" or "validated"
    img,        \* validate_image: the path, the file and what the call gave
    req,        \* the agents on long texts: the inputs, the requests, the result
    together,   \* whether the runs execute at the same time or one after the other
    trc         \* tracing_manager: the client, the trace object, what a call gave

vars == <<sink, scenario, run, vIn, vOut, vpc, img, req, together, trc>>

\* No agent call under way.
NoRequest ==
    [pc |-> "idle", original_text |-> <<>>, amendment_text |-> <<>>, analysis |-> <<>>,
     contextualization_prompt |-> <<>>, contextualization_output |-> <<>>,
     extraction_prompt |-> <<>>]

\* No call of tracing_manager under way.
NoTracing == [pc |-> "idle", client |-> NoClient, trace |-> DummyTraceObject, result |-> <<>>]

\* No validate_image call under way.
NoImage ==
    [pc |-> "idle", image_path |-> "", file |-> [exists |-> FALSE, suffix |-> <<>>, size |-> 0],
     result |-> <<>>]

InitRun ==
    [pc |-> "start", session_id |-> <<>>, contract_id |-> <<>>,
     main_trace |-> "dummy", trace |-> "dummy",
     original_text |-> <<>>, amendment_text |-> <<>>,
     contextualization_output |-> <<>>, change_output |-> <<>>,
     exc |-> <<>>, failed_stage |-> "", exit_code |-> <<>>, escaped |-> <<>>,
     invoked |-> <<>>, returned |-> <<>>, collab |-> <<>>, validated |-> 0,
     analyze_args |-> <<>>, extract_args |-> <<>>, log |-> <<>>,
     args |-> Args, output_file |-> <<>>, main_calls |-> <<>>, passed |-> <<>>,
     stdout |-> <<>>, stderr |-> <<>>]

\* The faults a sink can show during one step: a working or disabled sink
\* shows none.
Faults(r, names) == IF sink[r] = "faulty" THEN SUBSET names ELSE {{}}

Fail(st, e, stage) == [st EXCEPT !.pc = "except", !.exc = <<e>>, !.failed_stage = stage]

NextStage(stage) ==
    CASE stage = "parse_original" -> "parse_amendment"
      [] stage = "parse_amendment" -> "analyze_documents"
      [] stage = "analyze_documents" -> "extract_changes"
      [] stage = "extract_changes" -> "emit"

\* A main() that goes from the first image straight to contextualization.
AfterStage_skipping(stage, raised) ==
    IF raised THEN "except"
    ELSE IF stage = "parse_original" THEN "analyze_documents" ELSE NextStage(stage)

\* A main() that goes on after a stage has raised.
AfterStage_continuing(stage, raised) == NextStage(stage)

\* A main() that calls a stage again when it has raised.
AfterStage_retrying(stage, raised) == IF raised THEN stage ELSE NextStage(stage)

\* Where main() goes when a stage call has come back: on to the next
\* statement, or to its except clause.
AfterStage(stage, raised) ==
    IF raised THEN "except" ELSE NextStage(stage)

Await(stage) ==
    CASE stage = "parse_original" -> "vision_original"
      [] stage = "parse_amendment" -> "vision_amendment"
      [] stage = "analyze_documents" -> "llm_analyze"
      [] stage = "extract_changes" -> "llm_extract"

\* A stage call that came back with res (an exception or a value).
Back(st, stage, res) ==
    [st EXCEPT !.pc = AfterStage(stage, res.exc # <<>>),
               !.exc = IF res.exc # <<>> THEN res.exc ELSE @,
               !.failed_stage = IF res.exc # <<>> THEN stage ELSE @,
               !.returned = IF res.exc # <<>> THEN @ ELSE Append(@, stage)]

\* The collaborator's answer to the call a stage of run r made.
VisionResponse(r, doc) ==
    [ok |-> scenario[r].vision[doc], content |-> DocText(doc), usage |-> Usage]

AnalysisResponse(r) == [ok |-> scenario[r].ctx, content |-> AnalysisText, usage |-> Usage]

\* A program in which the runs keep what they hold in one place.
Set_shared(r, st) == run' = [q \in Runs |-> st]

\* Run r takes the step to st; nothing of another run changes.
Set(r, st) == run' = [run EXCEPT ![r] = st]

\* The runs are separate executions of the program: they execute at the
\* same time, or one runs after the other has ended.
Turn(r) == together \/ \A q \in Runs : q > r => run[q].pc = "done"

\* A call main() makes on its workflow trace: main_trace.span(name=...) or
\* main_trace.score(name=..., value=...); a span carries no value.
Span(name) == [op |-> "span", name |-> name, value |-> <<>>]

Score(name, value) == [op |-> "score", name |-> name, value |-> <<value>>]

\* A main() that scores every run as a success.
workflow_success_always(returns) == Score("workflow_success", 1)

\* The score main() gives the run: 1.0 before return 0 (line 204), 0.0
\* before return 1 (line 216).
workflow_success(returns) == Score("workflow_success", IF returns = 0 THEN 1 ELSE 0)

\* The calls of a sequence that the trace receives: all of them, or those
\* before the first one that raises.
Received(trace, calls, flt) ==
    LET raising == {i \in 1..Len(calls) : TraceCallRaises(trace, calls[i].name, flt)}
    IN  IF raising = {} THEN calls ELSE SubSeq(calls, 1, SetMin(raising) - 1)

\* main() has made the calls on its workflow trace, as far as they went.
Traced(st, calls, flt) ==
    [st EXCEPT !.main_calls = @ \o Received(st.main_trace, calls, flt)]

\* One of the calls raised.
Interrupted(st, calls, flt) == Len(Received(st.main_trace, calls, flt)) < Len(calls)

\* main(), lines 78-93: the identifiers and the workflow trace.
MainStart(r) ==
    /\ Turn(r)
    /\ run[r].pc = "start"
    /\ \E clientRaises \in Faults(r, {"create_trace"}) :
          Set(r, [run[r] EXCEPT
                    !.pc = "parse_original",
                    !.args = scenario[r].args,
                    !.session_id = OrDefault(scenario[r].args.session_id, Uuid4(r, 1)),
                    !.contract_id = OrDefault(scenario[r].args.contract_id, Uuid4(r, 2)),
                    !.main_trace = create_trace(sink[r], clientRaises # {})])
    /\ UNCHANGED <<sink, scenario, vIn, vOut, vpc, img, req, together, trc>>

\* A parse_image that reads the file and opens its trace before it looks at
\* what validate_image gave.
parse_image_steps_eager(is_valid) == <<"encode_image", "create_trace", "validate_image">>

\* What parse_image does before its collaborator call, in order (lines
\* 98-111): it stops after validate_image when the image is not valid.
parse_image_steps(is_valid) ==
    IF is_valid THEN <<"validate_image", "encode_image", "create_trace">>
    ELSE <<"validate_image">>

\* An entry of the run's log: what was done, and on what.
Done(op, arg) == [op |-> op, arg |-> arg]

\* A main() that hands the two identifiers over in each other's place.
stage_ids_swapped(st) == [session_id |-> st.contract_id, contract_id |-> st.session_id]

\* The identifiers main() passes to a stage: session_id=session_id,
\* contract_id=contract_id (lines 102-103, 109-110, 130-131, 150-151).
stage_ids(st) == [session_id |-> st.session_id, contract_id |-> st.contract_id]

\* A program that validates both images when it comes to the first.
images_validated_upfront(document_type) ==
    IF document_type = "original" THEN <<"original", "amendment">> ELSE <<>>

\* The images a parse_image call validates: the one it was given (lines
\* 98-101).
images_validated(document_type) == <<document_type>>

\* main() calls parse_image, which runs up to its collaborator call
\* (image_parser.py lines 98-151) or raises on an image that fails
\* validate_image.
ParseImageCall(r, doc) ==
    /\ Turn(r)
    /\ run[r].pc = StageOf(doc)
    /\ LET images == images_validated(doc)
           checks == [i \in 1..Len(images) |->
                         validate_image(ImagePath(images[i]), ImageFile(scenario[r], images[i]))]
           refused == {i \in 1..Len(images) : ~checks[i][1]}
           checked == IF refused = {} THEN <<TRUE, <<>> >> ELSE checks[SetMin(refused)]
           others == SelectSeq(images, LAMBDA d : d # doc)
           steps == parse_image_steps(checked[1])
           st == [run[r] EXCEPT
                    !.invoked = Append(@, StageOf(doc)),
                    !.passed = Append(@, stage_ids(run[r])),
                    !.log = @ \o [i \in 1..Len(others) |->
                                     Done("validate_image", ImagePath(others[i]))]
                              \o [i \in 1..Len(steps) |-> Done(steps[i], ImagePath(doc))]]
       IN  IF ~checked[1]
           THEN Set(r, Back(st, StageOf(doc),
                            Raise(Exception("ValueError",
                                            <<"Image validation failed">> \o checked[2]))))
           ELSE \E clientRaises \in Faults(r, {"create_trace"}) :
                   Set(r, [st EXCEPT !.pc = Await(StageOf(doc)),
                                     !.trace = create_trace(sink[r], clientRaises # {}),
                                     !.collab = Append(@, StageOf(doc))])
    /\ UNCHANGED <<sink, scenario, vIn, vOut, vpc, img, req, together, trc>>

\* The vision collaborator answers; parse_image returns or raises, and
\* main() keeps the text.
ParseImageReturn(r, doc) ==
    /\ Turn(r)
    /\ run[r].pc = Await(StageOf(doc))
    /\ \E flt \in Faults(r, {"generation", "extraction_quality", "error"}) :
          LET res == parse_image(ImagePath(doc), VisionResponse(r, doc), run[r].trace, flt)
              st == Back(run[r], StageOf(doc), res)
          IN  Set(r, IF res.exc # <<>> THEN st
                     ELSE IF doc = "original"
                          THEN [st EXCEPT !.original_text = res.value[1]]
                          ELSE [st EXCEPT !.amendment_text = res.value[1]])
    /\ UNCHANGED <<sink, scenario, vIn, vOut, vpc, img, req, together, trc>>

\* A main() that hands the two texts over in the other order.
analyze_arguments_swapped(st) ==
    [original_text |-> st.amendment_text, amendment_text |-> st.original_text]

\* The arguments of main()'s call of analyze_documents (lines 127-132).
analyze_arguments(st) ==
    [original_text |-> st.original_text, amendment_text |-> st.amendment_text]

\* The arguments of main()'s call of extract_changes (lines 146-152).
extract_arguments(st) ==
    [original_text |-> st.original_text, amendment_text |-> st.amendment_text,
     contextualization_output |-> st.contextualization_output[1]]

\* main() lines 114-132 and analyze_documents up to its collaborator call
\* (contextualization_agent.py lines 51-96).
AnalyzeCall(r) ==
    /\ Turn(r)
    /\ run[r].pc = "analyze_documents"
    /\ \E flt \in Faults(r, {"image_parsing_complete"}),
          clientRaises \in Faults(r, {"create_trace"}) :
          IF Interrupted(run[r], <<Span("image_parsing_complete")>>, flt)
          THEN Set(r, Fail(run[r], SinkError, ""))
          ELSE Set(r, [Traced(run[r], <<Span("image_parsing_complete")>>, flt) EXCEPT
                                     !.pc = Await("analyze_documents"),
                                     !.invoked = Append(@, "analyze_documents"),
                                     !.passed = Append(@, stage_ids(run[r])),
                                     !.analyze_args = <<analyze_arguments(run[r])>>,
                                     !.trace = create_trace(sink[r], clientRaises # {}),
                                     !.collab = Append(@, "analyze_documents")])
    /\ UNCHANGED <<sink, scenario, vIn, vOut, vpc, img, req, together, trc>>

\* The text collaborator answers; analyze_documents returns or raises.
AnalyzeReturn(r) ==
    /\ Turn(r)
    /\ run[r].pc = Await("analyze_documents")
    /\ \E flt \in Faults(r, {"generation", "contextualization_quality", "error"}) :
          LET res == analyze_documents(run[r].analyze_args[1].original_text,
                                       run[r].analyze_args[1].amendment_text,
                                       AnalysisResponse(r), run[r].trace, flt)
              st == Back(run[r], "analyze_documents", res)
          IN  Set(r, IF res.exc # <<>> THEN st
                     ELSE [st EXCEPT !.contextualization_output = res.value])
    /\ UNCHANGED <<sink, scenario, vIn, vOut, vpc, img, req, together, trc>>

\* main() lines 134-152 and extract_changes up to its collaborator call
\* (extraction_agent.py lines 54-108).
ExtractCall(r) ==
    /\ Turn(r)
    /\ run[r].pc = "extract_changes"
    /\ \E flt \in Faults(r, {"agent_1_complete"}),
          clientRaises \in Faults(r, {"create_trace"}) :
          IF Interrupted(run[r], <<Span("agent_1_complete")>>, flt)
          THEN Set(r, Fail(run[r], SinkError, ""))
          ELSE Set(r, [Traced(run[r], <<Span("agent_1_complete")>>, flt) EXCEPT
                                     !.pc = Await("extract_changes"),
                                     !.invoked = Append(@, "extract_changes"),
                                     !.passed = Append(@, stage_ids(run[r])),
                                     !.extract_args = <<extract_arguments(run[r])>>,
                                     !.trace = create_trace(sink[r], clientRaises # {}),
                                     !.collab = Append(@, "extract_changes")])
    /\ UNCHANGED <<sink, scenario, vIn, vOut, vpc, img, req, together, trc>>

\* The structured-output collaborator answers; extract_changes parses,
\* validates and returns, or raises.
ExtractReturn(r) ==
    /\ Turn(r)
    /\ run[r].pc = Await("extract_changes")
    /\ \E flt \in Faults(r, {"generation", "validation_error", "pydantic_validation_error",
                            "validation", "extraction_quality", "error"}) :
          LET res == extract_changes(scenario[r].ext, run[r].trace, flt)
              st == [Back(run[r], "extract_changes", res) EXCEPT
                        !.validated = @ + res.validated]
          IN  Set(r, IF res.exc # <<>> THEN st ELSE [st EXCEPT !.change_output = res.value])
    /\ UNCHANGED <<sink, scenario, vIn, vOut, vpc, img, req, together, trc>>

\* change_output.model_dump() with the run's metadata added (main.py
\* lines 177-185).
Result(st) ==
    LET result == model_dump(st.change_output[1])
        metadata == [session_id |-> st.session_id, contract_id |-> st.contract_id,
                     original_image |-> st.args.original_image,
                     amendment_image |-> st.args.amendment_image]
    IN  [k \in DOMAIN result \cup {"metadata"} |->
            IF k = "metadata" THEN metadata ELSE result[k]]

\* A main() that prints the result as well as saving it.
write_result_twice(st) ==
    IF st.args.output # <<>>
    THEN [st EXCEPT !.output_file = Append(@, Result(st)), !.stdout = Append(@, Result(st))]
    ELSE [st EXCEPT !.stdout = Append(@, Result(st))]

\* main() lines 190-201: the JSON goes to the --output file when one is
\* given, to stdout otherwise.
write_result(st) ==
    IF st.args.output # <<>>
    THEN [st EXCEPT !.output_file = Append(@, Result(st))]
    ELSE [st EXCEPT !.stdout = Append(@, Result(st))]

\* main() lines 154-206: the closing spans, the JSON output, the score,
\* return 0.
Emit(r) ==
    /\ Turn(r)
    /\ run[r].pc = "emit"
    /\ \E flt \in Faults(r, {"agent_2_complete", "validation_complete", "workflow_success"}) :
          LET spans == <<Span("agent_2_complete"), Span("validation_complete")>>
              score == <<workflow_success(0)>>
          IN  IF Interrupted(run[r], spans, flt)
              THEN Set(r, Fail(Traced(run[r], spans, flt), SinkError, ""))
              ELSE LET st == write_result(Traced(run[r], spans, flt))
                   IN  IF Interrupted(st, score, flt)
                       THEN Set(r, Fail(st, SinkError, ""))
                       ELSE Set(r, [Traced(st, score, flt) EXCEPT
                                       !.pc = "done", !.exit_code = <<0>>])
    /\ UNCHANGED <<sink, scenario, vIn, vOut, vpc, img, req, together, trc>>

\* main() lines 208-219: the except clause.
Except(r) ==
    /\ Turn(r)
    /\ run[r].pc = "except"
    /\ \E flt \in Faults(r, {"workflow_error", "workflow_success"}) :
          LET calls == <<Span("workflow_error"), workflow_success(1)>>
              st == Traced(run[r], calls, flt)
          IN  IF Interrupted(run[r], calls, flt)
              THEN Set(r, [st EXCEPT !.pc = "done", !.escaped = <<SinkError>>])
              ELSE Set(r, [st EXCEPT !.pc = "done", !.exit_code = <<1>>,
                                     !.stderr = Append(@, run[r].exc[1].msg)])
    /\ UNCHANGED <<sink, scenario, vIn, vOut, vpc, img, req, together, trc>>

\* The run under observation, under any sink.
Observed == 1

\* The same run with the sink disabled.
Reference == 2

\* Two runs of one scenario: one under any sink, one with the sink disabled.
Init ==
    /\ \E mode \in SinkModes : sink = [r \in Runs |-> IF r = Observed THEN mode ELSE "disabled"]
    /\ \E sc \in Scenarios : scenario = [r \in Runs |-> sc]
    /\ run = [r \in Runs |-> InitRun]
    /\ vIn = NoData
    /\ vOut = <<>>
    /\ vpc = "idle"
    /\ img = NoImage
    /\ req = NoRequest
    /\ together = FALSE
    /\ trc = NoTracing

Next ==
    \E r \in Runs :
        \/ MainStart(r)
        \/ \E doc \in Docs : ParseImageCall(r, doc)
        \/ \E doc \in Docs : ParseImageReturn(r, doc)
        \/ AnalyzeCall(r)
        \/ AnalyzeReturn(r)
        \/ ExtractCall(r)
        \/ ExtractReturn(r)
        \/ Emit(r)
        \/ Except(r)

Spec == Init /\ [][Next]_vars

(***************************************************************************)
(* The validation specification: a candidate is drawn, and the             *)
(* constructor is applied to it.                                           *)
(***************************************************************************)

Construct ==
    /\ vpc = "input"
    /\ vOut' = <<ContractChangeOutput(vIn)>>
    /\ vpc' = "validated"
    /\ UNCHANGED <<sink, scenario, run, vIn, img, req, together, trc>>

\* The keyword arguments a record gives when it is validated again:
\* ContractChangeOutput(**record.model_dump()).
AsData(record) ==
    [sections_changed |-> JList(record.sections_changed),
     topics_touched |-> JList(record.topics_touched),
     summary_of_the_change |-> JStr(record.summary_of_the_change),
     extra |-> FALSE]

\* The record the constructor made is validated a second time.
Revalidate ==
    /\ vpc = "validated"
    /\ vOut[1].record # <<>>
    /\ vOut' = Append(vOut, ContractChangeOutput(AsData(vOut[1].record[1])))
    /\ vpc' = "revalidated"
    /\ UNCHANGED <<sink, scenario, run, vIn, img, req, together, trc>>

InitValidation ==
    /\ sink = [r \in Runs |-> "disabled"]
    /\ scenario = [r \in Runs |-> CHOOSE sc \in Scenarios : TRUE]
    /\ run = [r \in Runs |-> InitRun]
    /\ vIn \in Candidates
    /\ vOut = <<>>
    /\ vpc = "input"
    /\ img = NoImage
    /\ req = NoRequest
    /\ together = FALSE
    /\ trc = NoTracing

NextValidation == Construct \/ Revalidate

(***************************************************************************)
(* The concurrent specification: two runs with their own command lines and *)
(* their own scenarios execute at the same time, their steps interleaved   *)
(* in every way; they use the one tracing_manager of the module, whose     *)
(* calls return.                                                           *)
(***************************************************************************)

InitConcurrent ==
    /\ \E mode \in {"disabled", "working"} : sink = [r \in Runs |-> mode]
    /\ \E a \in Scenarios, b \in Scenarios :
          /\ a.args # b.args
          /\ b.ext = DefaultExtraction
          /\ scenario = [r \in Runs |-> IF r = Observed THEN a ELSE b]
    /\ run = [r \in Runs |-> InitRun]
    /\ vIn = NoData
    /\ vOut = <<>>
    /\ vpc = "idle"
    /\ img = NoImage
    /\ req = NoRequest
    /\ together = TRUE
    /\ trc = NoTracing

SpecConcurrent == InitConcurrent /\ [][Next]_vars

SpecValidation == InitValidation /\ [][NextValidation]_vars

(***************************************************************************)
(* The image specification: a file is drawn, and validate_image is applied *)
(* to its path.                                                            *)
(***************************************************************************)

ValidateImage ==
    /\ img.pc = "input"
    /\ img' = [img EXCEPT !.pc = "validated",
                          !.result = <<validate_image(img.image_path, img.file)>>]
    /\ UNCHANGED <<sink, scenario, run, vIn, vOut, vpc, req, together, trc>>

InitImage ==
    /\ sink = [r \in Runs |-> "disabled"]
    /\ scenario = [r \in Runs |-> CHOOSE sc \in Scenarios : TRUE]
    /\ run = [r \in Runs |-> InitRun]
    /\ vIn = NoData
    /\ vOut = <<>>
    /\ vpc = "idle"
    /\ \E f \in Files :
          img = [pc |-> "input", image_path |-> Args.original_image, file |-> f, result |-> <<>>]
    /\ req = NoRequest
    /\ together = FALSE
    /\ trc = NoTracing

NextImage == ValidateImage

SpecImage == InitImage /\ [][NextImage]_vars

(***************************************************************************)
(* The tracing specification: a client and a trace object are drawn, and   *)
(* one of the three methods of tracing_manager is called.                  *)
(***************************************************************************)

CreateTrace ==
    /\ trc.pc = "input"
    /\ trc' = [trc EXCEPT !.pc = "create_trace",
                          !.result = <<TracingManager_create_trace(trc.client)>>]
    /\ UNCHANGED <<sink, scenario, run, vIn, vOut, vpc, img, req, together>>

CreateSpan ==
    /\ trc.pc = "input"
    /\ trc' = [trc EXCEPT !.pc = "create_span",
                          !.result = <<TracingManager_create_span(trc.trace)>>]
    /\ UNCHANGED <<sink, scenario, run, vIn, vOut, vpc, img, req, together>>

CreateGeneration ==
    /\ trc.pc = "input"
    /\ trc' = [trc EXCEPT !.pc = "create_generation",
                          !.result = <<TracingManager_create_generation(trc.trace)>>]
    /\ UNCHANGED <<sink, scenario, run, vIn, vOut, vpc, img, req, together>>

InitTracing ==
    /\ sink = [r \in Runs |-> "disabled"]
    /\ scenario = [r \in Runs |-> CHOOSE sc \in Scenarios : TRUE]
    /\ run = [r \in Runs |-> InitRun]
    /\ vIn = NoData
    /\ vOut = <<>>
    /\ vpc = "idle"
    /\ img = NoImage
    /\ req = NoRequest
    /\ together = FALSE
    /\ \E c \in Clients, t \in TraceObjects :
          trc = [pc |-> "input", client |-> c, trace |-> t, result |-> <<>>]

NextTracing == CreateTrace \/ CreateSpan \/ CreateGeneration

SpecTracing == InitTracing /\ [][NextTracing]_vars

(***************************************************************************)
(* The request specification: two documents and an analysis are drawn,     *)
(* long enough to pass the caps of the two agents; analyze_documents       *)
(* builds its request and returns, then extract_changes builds its         *)
(* request from what analyze_documents returned.                           *)
(***************************************************************************)

\* How far beyond a cap the lengths are drawn.
Over == 1

\* A text of n characters that differ from place to place; the original
\* is written in small letters, the amendment in capitals.
LongText(n, letters) == [i \in 1..n |-> letters[(i % 26) + 1]]

DocLengths ==
    {0, 1} \cup ((ExtractionCap - 1)..(ExtractionCap + Over))
           \cup ((ContextualizationCap - 1)..(ContextualizationCap + Over))

AnalysisLengths == {0, 1, ContextualizationCap + Over}

\* analyze_documents on the drawn documents, the collaborator answering
\* with the drawn analysis.
AnalyzeLong ==
    /\ req.pc = "input"
    /\ req' = [req EXCEPT
                  !.pc = "analyzed",
                  !.contextualization_prompt =
                      contextualization_user_prompt(req.original_text, req.amendment_text),
                  !.contextualization_output =
                      analyze_documents(req.original_text, req.amendment_text,
                                        [ok |-> TRUE, content |-> req.analysis, usage |-> Usage],
                                        "dummy", {}).value]
    /\ UNCHANGED <<sink, scenario, run, vIn, vOut, vpc, img, together, trc>>

\* extract_changes on the drawn documents and the returned analysis, up to
\* its collaborator call.
ExtractLong ==
    /\ req.pc = "analyzed"
    /\ req' = [req EXCEPT
                  !.pc = "requested",
                  !.extraction_prompt =
                      extraction_user_prompt(req.contextualization_output[1],
                                             req.original_text, req.amendment_text)]
    /\ UNCHANGED <<sink, scenario, run, vIn, vOut, vpc, img, together, trc>>

\* Contextualization outputs without the key 'analysis': an empty dict,
\* and the record of analyze_documents less its analysis.
OutputsWithoutAnalysis(original_text, amendment_text) ==
    {<<>>, [original_length |-> Len(original_text),
            amendment_length |-> Len(amendment_text), usage |-> Usage]}

\* extract_changes called on the drawn documents with a contextualization
\* output that has no analysis, up to its collaborator call.
ExtractWithoutAnalysis ==
    /\ req.pc = "input"
    /\ \E given \in OutputsWithoutAnalysis(req.original_text, req.amendment_text) :
          req' = [req EXCEPT
                     !.pc = "requested_without",
                     !.contextualization_output = <<given>>,
                     !.extraction_prompt =
                         extraction_user_prompt(given, req.original_text,
                                                req.amendment_text)]
    /\ UNCHANGED <<sink, scenario, run, vIn, vOut, vpc, img, together, trc>>

InitRequest ==
    /\ sink = [r \in Runs |-> "disabled"]
    /\ scenario = [r \in Runs |-> CHOOSE sc \in Scenarios : TRUE]
    /\ run = [r \in Runs |-> InitRun]
    /\ vIn = NoData
    /\ vOut = <<>>
    /\ vpc = "idle"
    /\ img = NoImage
    /\ \E n \in DocLengths, m \in DocLengths, k \in AnalysisLengths :
          req = [NoRequest EXCEPT !.pc = "input",
                                  !.original_text = LongText(n, Lowercase),
                                  !.amendment_text = LongText(m, Uppercase),
                                  !.analysis = LongText(k, Lowercase)]
    /\ together = FALSE
    /\ trc = NoTracing

NextRequest == AnalyzeLong \/ ExtractLong \/ ExtractWithoutAnalysis

SpecRequest == InitRequest /\ [][NextRequest]_vars

(***************************************************************************)
(* The vocabulary of the properties, defined without the operators of the  *)
(* model above.                                                            *)
(***************************************************************************)

Blank == {" ", "\t"}

RECURSIVE DropLeft(_)
DropLeft(s) == IF s = <<>> \/ Head(s) \notin Blank THEN s ELSE DropLeft(Tail(s))

RECURSIVE DropRight(_)
DropRight(s) ==
    IF s = <<>> \/ s[Len(s)] \notin Blank THEN s ELSE DropRight(SubSeq(s, 1, Len(s) - 1))

\* s without surrounding whitespace.
Trimmed(s) == DropRight(DropLeft(s))

AllBlank(s) == \A i \in 1..Len(s) : s[i] \in Blank

IsList(val) == val.t = "list"

IsStr(val) == val.t = "str"

\* A candidate of the shape the contract accepts.
Qualifies(c) ==
    /\ IsList(c.sections_changed) /\ Len(c.sections_changed.v) >= 1
    /\ \A i \in 1..Len(c.sections_changed.v) : ~AllBlank(c.sections_changed.v[i])
    /\ IsList(c.topics_touched) /\ Len(c.topics_touched.v) >= 1
    /\ \A i \in 1..Len(c.topics_touched.v) : ~AllBlank(c.topics_touched.v[i])
    /\ IsStr(c.summary_of_the_change)
    /\ Len(Trimmed(c.summary_of_the_change.v)) >= 50

\* The candidate with every element and the summary trimmed.
TrimmedRecord(c) ==
    [sections_changed |-> [i \in 1..Len(c.sections_changed.v) |-> Trimmed(c.sections_changed.v[i])],
     topics_touched |-> [i \in 1..Len(c.topics_touched.v) |-> Trimmed(c.topics_touched.v[i])],
     summary_of_the_change |-> Trimmed(c.summary_of_the_change.v)]

\* The fields of a candidate that are missing, empty lists or too short a
\* summary.
Offending(c) ==
    {f \in {"sections_changed", "topics_touched"} :
        c[f].t = "missing" \/ (IsList(c[f]) /\ c[f].v = <<>>)}
    \cup {f \in {"summary_of_the_change"} :
            c[f].t = "missing" \/ (IsStr(c[f]) /\ Len(Trimmed(c[f].v)) < 50)}

HasBlankElement(val) == IsList(val) /\ \E i \in 1..Len(val.v) : AllBlank(val.v[i])

Padded(s) == s # <<>> /\ (Head(s) \in Blank \/ s[Len(s)] \in Blank)

\* A record that meets the three constraints of the contract.
ValidRecord(rec) ==
    /\ Len(rec.sections_changed) >= 1
    /\ \A i \in 1..Len(rec.sections_changed) :
          rec.sections_changed[i] # <<>> /\ Trimmed(rec.sections_changed[i]) = rec.sections_changed[i]
    /\ Len(rec.topics_touched) >= 1
    /\ \A i \in 1..Len(rec.topics_touched) :
          rec.topics_touched[i] # <<>> /\ Trimmed(rec.topics_touched[i]) = rec.topics_touched[i]
    /\ Len(rec.summary_of_the_change) >= 50
    /\ Trimmed(rec.summary_of_the_change) = rec.summary_of_the_change

\* The stages in the order the pipeline is to call them.
StageOrder == <<"parse_original", "parse_amendment", "analyze_documents", "extract_changes">>

IsPrefix(s, t) == Len(s) <= Len(t) /\ \A i \in 1..Len(s) : s[i] = t[i]

Count(s, x) == Cardinality({i \in 1..Len(s) : s[i] = x})

Occurs(s, x) == \E i \in 1..Len(s) : s[i] = x

\* The result objects run r has emitted, to stdout or to its output file.
Emitted(r) == run[r].stdout \o run[r].output_file

\* extract_changes was called in run r and has come back.
Extracted(r) == Occurs(run[r].invoked, "extract_changes") /\ run[r].pc # "llm_extract"

\* The text the extraction collaborator gave run r, when its call returned.
Answer(r) == scenario[r].ext.content

(***************************************************************************)
(* Properties of ContractChangeOutput (checked under SpecValidation)       *)
(***************************************************************************)

\* C4: a candidate with at least one section, at least one topic, no
\* element blank after trimming and a summary of at least 50 characters
\* after trimming is accepted, and the record is the candidate with every
\* element and the summary trimmed, element for element.
C4_ValidAcceptedTrimmed ==
    (vpc = "validated" /\ Qualifies(vIn)) =>
        /\ vOut[1].errors = {}
        /\ vOut[1].record = <<TrimmedRecord(vIn)>>

\* A two-section candidate with padded elements and a padded summary has
\* been accepted.
C4_Witness ==
    /\ vpc = "validated" /\ Qualifies(vIn)
    /\ Len(vIn.sections_changed.v) = 2
    /\ vIn.sections_changed.v[1] # vIn.sections_changed.v[2]
    /\ \E i \in 1..2 : Padded(vIn.sections_changed.v[i])
    /\ Padded(vIn.summary_of_the_change.v)
    /\ vOut[1].record # <<>>

\* C5: a candidate with a missing field, an empty sections_changed or
\* topics_touched, or a summary shorter than 50 characters after trimming
\* is refused: no record is made, and the validation error names each such
\* field.
C5_InvalidRejectedNamed ==
    vpc = "validated" =>
        \A f \in Offending(vIn) :
            /\ vOut[1].record = <<>>
            /\ \E e \in vOut[1].errors : e.loc = f

\* A candidate with an empty sections_changed and a summary of 50 or more
\* characters as given, but fewer once trimmed, has been refused.
C5_Witness ==
    /\ vpc = "validated"
    /\ {"sections_changed", "summary_of_the_change"} \subseteq Offending(vIn)
    /\ IsStr(vIn.summary_of_the_change) /\ Len(vIn.summary_of_the_change.v) >= 50
    /\ vOut[1].record = <<>>

\* C6: a sections_changed or topics_touched holding an element that is
\* empty or only whitespace is refused as a whole, whatever the other
\* elements and fields are: no record is made.
C6_BlankElementRejected ==
    (vpc = "validated"
        /\ (HasBlankElement(vIn.sections_changed) \/ HasBlankElement(vIn.topics_touched))) =>
        vOut[1].record = <<>>

\* A candidate whose only flaw is one blank section next to a good one has
\* been refused.
C6_Witness ==
    /\ vpc = "validated"
    /\ HasBlankElement(vIn.sections_changed)
    /\ \E i \in 1..Len(vIn.sections_changed.v) : ~AllBlank(vIn.sections_changed.v[i])
    /\ Qualifies([vIn EXCEPT !.sections_changed = JList(<<<<"x">>>>)])
    /\ vOut[1].record = <<>>
    /\ \E e \in vOut[1].errors : e.loc = "sections_changed"

(***************************************************************************)
(* Properties of the runs (checked under Spec)                             *)
(***************************************************************************)

\* C1: the stages are called in the order parse_image(original),
\* parse_image(amendment), analyze_documents, extract_changes; a stage is
\* called only when every stage before it has returned, and a run that
\* returns 0 has called all four.
C1_FixedStageOrder ==
    \A r \in Runs :
        /\ IsPrefix(run[r].invoked, StageOrder)
        /\ \A i \in 2..Len(run[r].invoked) :
              \A k \in 1..(i - 1) : Occurs(run[r].returned, run[r].invoked[k])
        /\ run[r].exit_code = <<0>> =>
              run[r].invoked = StageOrder /\ run[r].returned = StageOrder

\* A run has returned 0 after its four stages.
C1_Witness ==
    \E r \in Runs : run[r].pc = "done" /\ run[r].exit_code = <<0>> /\ Len(run[r].invoked) = 4

\* C2: once a stage has raised, no later stage is called, the run is in
\* its except clause or over, and there is no record and no output.
C2_FailureAborts ==
    \A r \in Runs :
        run[r].failed_stage # "" =>
            /\ run[r].invoked[Len(run[r].invoked)] = run[r].failed_stage
            /\ run[r].pc \in {"except", "done"}
            /\ run[r].change_output = <<>>
            /\ Emitted(r) = <<>>
            /\ run[r].exit_code # <<0>>

\* The second parse_image call has raised on the collaborator's failure,
\* and the run is over.
C2_Witness ==
    \E r \in Runs :
        /\ run[r].failed_stage = "parse_amendment" /\ run[r].pc = "done"
        /\ ~scenario[r].vision["amendment"]
        /\ run[r].invoked = <<"parse_original", "parse_amendment">>

\* C3: in a run no stage is called twice, and a call of a stage makes at
\* most one collaborator call, whether that call returns or fails.
C3_NoRetries ==
    \A r \in Runs :
        \A i \in 1..Len(StageOrder) :
            /\ Count(run[r].invoked, StageOrder[i]) <= 1
            /\ Count(run[r].collab, StageOrder[i]) <= Count(run[r].invoked, StageOrder[i])

\* analyze_documents has raised on the collaborator's failure after its
\* one call, and the run is over.
C3_Witness ==
    \E r \in Runs :
        /\ run[r].pc = "done" /\ run[r].failed_stage = "analyze_documents"
        /\ ~scenario[r].ctx
        /\ Count(run[r].collab, "analyze_documents") = 1

\* C7: a record extract_changes returned meets the three constraints and is
\* the collaborator's object trimmed; when the collaborator's text is no
\* JSON object, or an object that breaks a constraint, extract_changes
\* raises and there is no record.
C7_RecordValidOrAbsent ==
    \A r \in Runs :
        /\ run[r].change_output # <<>> =>
              /\ ValidRecord(run[r].change_output[1])
              /\ scenario[r].ext.ok /\ Answer(r).syntax = "object"
              /\ Qualifies(Answer(r).data)
              /\ run[r].change_output[1] = TrimmedRecord(Answer(r).data)
        /\ (Extracted(r) /\ scenario[r].ext.ok
                /\ (Answer(r).syntax # "object" \/ ~Qualifies(Answer(r).data))) =>
              run[r].failed_stage = "extract_changes" /\ run[r].change_output = <<>>

\* extract_changes has raised on an object whose lists are good and whose
\* summary is too short once trimmed.
C7_Witness ==
    \E r \in Runs :
        /\ Extracted(r) /\ scenario[r].ext.ok /\ Answer(r).syntax = "object"
        /\ Offending(Answer(r).data) = {"summary_of_the_change"}
        /\ IsStr(Answer(r).data.summary_of_the_change)
        /\ run[r].failed_stage = "extract_changes" /\ run[r].change_output = <<>>

\* C8: when the collaborator's text is no JSON, extract_changes raises and
\* ContractChangeOutput is not constructed in that call.
C8_NoValidationOfBadJson ==
    \A r \in Runs :
        (Extracted(r) /\ scenario[r].ext.ok /\ Answer(r).syntax = "invalid") =>
            /\ run[r].failed_stage = "extract_changes"
            /\ run[r].validated = 0

\* extract_changes has raised on a text that is no JSON.
C8_Witness ==
    \E r \in Runs :
        /\ Extracted(r) /\ scenario[r].ext.ok /\ Answer(r).syntax = "invalid"
        /\ run[r].failed_stage = "extract_changes"
        /\ run[r].exc[1].type = "RuntimeError"

\* The type of the exception extract_changes raises when the collaborator
\* call itself fails.
CollaboratorFailureType ==
    extract_changes([DefaultExtraction EXCEPT !.ok = FALSE], "dummy", {}).exc[1].type

\* C9: the exception extract_changes raises on a text that is no JSON is of
\* another type than the one it raises when the collaborator call fails.
C9_DistinctErrorKinds ==
    \A r \in Runs :
        (Extracted(r) /\ scenario[r].ext.ok /\ Answer(r).syntax = "invalid"
            /\ run[r].failed_stage = "extract_changes") =>
            run[r].exc[1].type # CollaboratorFailureType

\* C10: a run with the sink disabled and a run of the same scenario with a
\* working sink end alike: the same record, the same exit code, and the
\* same exception leaving main, if any.
C10_SinkDoesNotMatter ==
    (/\ run[Observed].pc = "done" /\ run[Reference].pc = "done"
     /\ sink[Observed] = "working" /\ sink[Reference] = "disabled"
     /\ scenario[Observed] = scenario[Reference]) =>
        /\ run[Observed].change_output = run[Reference].change_output
        /\ run[Observed].exit_code = run[Reference].exit_code
        /\ run[Observed].escaped = run[Reference].escaped

\* Both runs of a scenario have returned 0 with a record, one under a
\* working sink and one with the sink disabled.
C10_Witness ==
    /\ run[Observed].pc = "done" /\ run[Reference].pc = "done"
    /\ sink[Observed] = "working" /\ sink[Reference] = "disabled"
    /\ run[Observed].main_trace = "wrapper" /\ run[Reference].main_trace = "dummy"
    /\ run[Observed].exit_code = <<0>>
    /\ run[Observed].change_output # <<>>

(***************************************************************************)
(* Properties of the stages and of main() under a failing sink             *)
(***************************************************************************)

\* analyze_documents was called in run r and has come back.
Analyzed(r) == Occurs(run[r].invoked, "analyze_documents") /\ run[r].pc # "llm_analyze"

\* The collaborator of extract_changes answered run r with an object that
\* meets the constraints.
GoodAnswer(r) ==
    scenario[r].ext.ok /\ Answer(r).syntax = "object" /\ Qualifies(Answer(r).data)

\* C11: a sink call that raises during analyze_documents or extract_changes
\* does not change what the stage gives: when the collaborator call and the
\* validation succeeded the stage returns its result, and when they failed
\* the stage raises the RuntimeError of the underlying failure.
C11_SinkFailureHarmless ==
    \A r \in Runs :
        /\ Analyzed(r) =>
              IF scenario[r].ctx
              THEN /\ Occurs(run[r].returned, "analyze_documents")
                   /\ run[r].contextualization_output # <<>>
                   /\ run[r].contextualization_output[1].analysis = AnalysisText
              ELSE /\ run[r].failed_stage = "analyze_documents"
                   /\ run[r].exc[1].type = "RuntimeError"
                   /\ Occurs(run[r].exc[1].msg, "provider error")
        /\ Extracted(r) =>
              IF GoodAnswer(r)
              THEN /\ Occurs(run[r].returned, "extract_changes")
                   /\ run[r].change_output = <<TrimmedRecord(Answer(r).data)>>
              ELSE /\ run[r].failed_stage = "extract_changes"
                   /\ run[r].exc[1].type = "RuntimeError"
                   /\ ~Occurs(run[r].exc[1].msg, "sink call failed")

\* The keys of the emitted object and of its metadata.
TopLevelKeys == {"sections_changed", "topics_touched", "summary_of_the_change", "metadata"}

MetadataKeys == {"session_id", "contract_id", "original_image", "amendment_image"}

\* C12: a run that returns 0 has emitted one JSON object; an emitted object
\* has the top-level keys sections_changed, topics_touched,
\* summary_of_the_change and metadata and no other, and its metadata holds
\* the session id, the contract id and the two image paths of the run,
\* whatever keys the collaborator's object carried.
C12_EmittedKeys ==
    \A r \in Runs :
        /\ run[r].exit_code = <<0>> => Len(Emitted(r)) = 1
        /\ \A i \in 1..Len(Emitted(r)) :
              LET out == Emitted(r)[i]
              IN  /\ DOMAIN out = TopLevelKeys
                  /\ DOMAIN out.metadata = MetadataKeys
                  /\ out.metadata.session_id = run[r].session_id
                  /\ out.metadata.contract_id = run[r].contract_id
                  /\ out.metadata.original_image = "original.png"
                  /\ out.metadata.amendment_image = "amendment.png"
                  /\ out.sections_changed = run[r].change_output[1].sections_changed

\* A run has returned 0 on a collaborator's object that carried a key the
\* model does not declare.
C12_Witness ==
    \E r \in Runs :
        /\ run[r].pc = "done" /\ run[r].exit_code = <<0>>
        /\ GoodAnswer(r) /\ Answer(r).data.extra
        /\ Len(Emitted(r)) = 1
        /\ DOMAIN Emitted(r)[1] = TopLevelKeys

\* Every stage call of run r has returned.
AllStagesReturned(r) == run[r].returned = StageOrder

\* C13: main returns 0 when the four stage calls have returned and the
\* result is emitted; on a failure it returns 1, raising nothing, with the
\* error written to the error stream.
C13_ExitCodes ==
    \A r \in Runs :
        run[r].pc = "done" =>
            /\ (AllStagesReturned(r) /\ Len(Emitted(r)) = 1) => run[r].exit_code = <<0>>
            /\ run[r].exc # <<>> =>
                  /\ run[r].exit_code = <<1>>
                  /\ run[r].escaped = <<>>
                  /\ run[r].stderr = <<run[r].exc[1].msg>>
            /\ run[r].exc = <<>> => run[r].exit_code = <<0>>

\* The error message names the stage: the agent, or the image of the
\* vision call.
NamesStage(msg, stage) ==
    CASE stage = "parse_original" ->
            /\ msg[1] \in {"Image validation failed", "Failed to parse image"}
            /\ Occurs(msg, "original.png")
      [] stage = "parse_amendment" ->
            /\ msg[1] \in {"Image validation failed", "Failed to parse image"}
            /\ Occurs(msg, "amendment.png")
      [] stage = "analyze_documents" -> msg[1] = "Contextualization agent failed"
      [] stage = "extract_changes" -> msg[1] = "Extraction agent failed"
      [] OTHER -> FALSE

\* What made the stage of run r fail, as the scenario has it.
UnderlyingCause(r, stage) ==
    LET image(doc) ==
            IF scenario[r].image_ok[doc] THEN "provider error"
            ELSE IF scenario[r].defect = "missing" THEN "Image file not found"
            ELSE "Image file is empty"
    IN  CASE stage = "parse_original" -> image("original")
          [] stage = "parse_amendment" -> image("amendment")
          [] stage = "analyze_documents" -> "provider error"
          [] stage = "extract_changes" ->
                IF ~scenario[r].ext.ok THEN "provider error"
                ELSE IF Answer(r).syntax = "invalid" THEN "Failed to parse agent output as JSON"
                ELSE "Pydantic validation failed"
          [] OTHER -> ""

\* C14: a run that failed has reported one error to the caller, on the
\* error stream; the error names the stage that failed and carries what
\* made it fail.
C14_OneErrorNamingStage ==
    \A r \in Runs :
        (run[r].pc = "done" /\ run[r].exit_code # <<0>>) =>
            /\ run[r].escaped = <<>>
            /\ Len(run[r].stderr) = 1
            /\ NamesStage(run[r].stderr[1], run[r].failed_stage)
            /\ Occurs(run[r].stderr[1], UnderlyingCause(r, run[r].failed_stage))

\* C15: a run goes on until main has ended, and when main has ended it has
\* returned 0 (Validated) or returned 1 (Failed), one of the two.
C15_TerminalStates ==
    /\ (\E r \in Runs : run[r].pc # "done") => ENABLED Next
    /\ \A r \in Runs :
          run[r].pc = "done" =>
              /\ run[r].exit_code \in {<<0>>, <<1>>}
              /\ run[r].escaped = <<>>

\* C16: the texts handed to analyze_documents and to extract_changes are
\* the texts the first and the second parse_image call returned, in that
\* order and as they were; the contextualization output handed to
\* extract_changes is what analyze_documents returned in the run, and it is
\* handed over once.
C16_StageArguments ==
    \A r \in Runs :
        /\ run[r].analyze_args # <<>> =>
              /\ Occurs(run[r].returned, "parse_original")
              /\ Occurs(run[r].returned, "parse_amendment")
              /\ run[r].analyze_args[1].original_text = DocText("original")
              /\ run[r].analyze_args[1].amendment_text = DocText("amendment")
        /\ run[r].extract_args # <<>> =>
              /\ run[r].extract_args[1].original_text = DocText("original")
              /\ run[r].extract_args[1].amendment_text = DocText("amendment")
              /\ Occurs(run[r].returned, "analyze_documents")
              /\ run[r].extract_args[1].contextualization_output.analysis = AnalysisText
              /\ run[r].extract_args[1].contextualization_output
                    = run[r].contextualization_output[1]
        /\ (run[r].extract_args # <<>>) = Occurs(run[r].invoked, "extract_changes")
        /\ (run[r].analyze_args # <<>>) = Occurs(run[r].invoked, "analyze_documents")
        /\ Count(run[r].invoked, "extract_changes") <= 1

\* extract_changes has been called with two different texts and the
\* analysis, and has come back.
C16_Witness ==
    \E r \in Runs :
        /\ Extracted(r)
        /\ run[r].extract_args # <<>> /\ run[r].analyze_args # <<>>
        /\ run[r].extract_args[1].original_text # run[r].extract_args[1].amendment_text
        /\ run[r].extract_args[1].original_text # <<>>
        /\ run[r].extract_args[1].contextualization_output.analysis # <<>>

(***************************************************************************)
(* Properties of validate_image (checked under SpecImage)                  *)
(***************************************************************************)

\* Two character sequences that differ at most in the case of letters.
EqualIgnoringCase(a, b) ==
    /\ Len(a) = Len(b)
    /\ \A i \in 1..Len(a) :
          \/ a[i] = b[i]
          \/ \E k \in 1..26 : {a[i], b[i]} = {Uppercase[k], Lowercase[k]}

\* The conditions of validate_image that a file fails.
FailedChecks(file) ==
    {c \in {"Image file not found"} : ~file.exists}
    \cup {c \in {"Unsupported image format"} :
            ~\E f \in {<<".", "j", "p", "g">>, <<".", "j", "p", "e", "g">>,
                        <<".", "p", "n", "g">>, <<".", "g", "i", "f">>,
                        <<".", "w", "e", "b", "p">>} : EqualIgnoringCase(file.suffix, f)}
    \cup {c \in {"Image file too large"} : file.size > 10 * 1024 * 1024}
    \cup {c \in {"Image file is empty"} : file.size = 0}

\* The order in which the failed conditions are reported.
CheckOrder ==
    <<"Image file not found", "Unsupported image format", "Image file too large",
      "Image file is empty">>

\* C20: validate_image gives (True, None) exactly when the file exists, its
\* suffix is one of .jpg, .jpeg, .png, .gif, .webp whatever the case of its
\* letters, and its size is above 0 and at most 10 MiB; otherwise it gives
\* (False, message), the message being that of the first failed condition
\* in the order not found, unsupported format, too large, empty.
C20_ValidateImage ==
    img.pc = "validated" =>
        LET result == img.result[1]
            failed == FailedChecks(img.file)
            first == CHOOSE i \in 1..4 :
                        CheckOrder[i] \in failed /\ \A j \in 1..(i - 1) : CheckOrder[j] \notin failed
        IN  IF failed = {} THEN result = <<TRUE, <<>>>>
            ELSE /\ result[1] = FALSE
                 /\ result[2] # <<>>
                 /\ result[2][1] = CheckOrder[first]

\* A file of exactly 10 MiB whose suffix is written in capitals has been
\* accepted.
C20_Witness ==
    /\ img.pc = "validated"
    /\ img.file.exists /\ img.file.suffix = <<".", "P", "N", "G">>
    /\ img.file.size = 10 * 1024 * 1024
    /\ img.result = <<<<TRUE, <<>>>>>>

(***************************************************************************)
(* Properties of the agents' requests (checked under SpecRequest)          *)
(***************************************************************************)

\* The texts put under a heading of a user message.
Under(prompt, heading) == {prompt[i].body : i \in {j \in 1..Len(prompt) : prompt[j].heading = heading}}

Shorter(a, b) == IF a < b THEN a ELSE b

\* C17: the user message of extract_changes has, under the heading
\* CONTEXTUALIZATION ANALYSIS, the whole analysis text of the
\* contextualization output it was given, however long the text is.
C17_FullAnalysisSent ==
    req.pc = "requested" =>
        Under(req.extraction_prompt, "CONTEXTUALIZATION ANALYSIS (from Agent 1)")
            = {req.contextualization_output[1].analysis}

\* A request has been built from an analysis longer than both caps.
C17_Witness ==
    /\ req.pc = "requested"
    /\ Len(req.contextualization_output[1].analysis) > 8000
    /\ \E i \in 1..Len(req.extraction_prompt) :
          /\ req.extraction_prompt[i].heading = "CONTEXTUALIZATION ANALYSIS (from Agent 1)"
          /\ Len(req.extraction_prompt[i].body) > 8000

C19_TruncationCaps ==
    req.pc = "requested" =>
        /\ \A b \in Under(req.contextualization_prompt, "ORIGINAL CONTRACT") :
              IsPrefix(b, req.original_text) /\ Len(b) = Shorter(Len(req.original_text), 8000)
        /\ \A b \in Under(req.contextualization_prompt, "AMENDED CONTRACT") :
              IsPrefix(b, req.amendment_text) /\ Len(b) = Shorter(Len(req.amendment_text), 8000)
        /\ \A b \in Under(req.extraction_prompt, "ORIGINAL CONTRACT") :
              IsPrefix(b, req.original_text) /\ Len(b) = Shorter(Len(req.original_text), 6000)
        /\ \A b \in Under(req.extraction_prompt, "AMENDED CONTRACT") :
              IsPrefix(b, req.amendment_text) /\ Len(b) = Shorter(Len(req.amendment_text), 6000)
        /\ \A h \in {"ORIGINAL CONTRACT", "AMENDED CONTRACT"} :
              /\ Cardinality(Under(req.contextualization_prompt, h)) = 1
              /\ Cardinality(Under(req.extraction_prompt, h)) = 1

\* Requests have been built from an original longer than both caps and an
\* amendment between the two: the amendment went whole into the
\* contextualization request and cut into the extraction request.
C19_Witness ==
    /\ req.pc = "requested"
    /\ Len(req.original_text) > 8000
    /\ Len(req.amendment_text) \in 6001..8000
    /\ req.contextualization_prompt[2].body = req.amendment_text
    /\ Len(req.extraction_prompt[3].body) = 6000
    /\ Len(req.contextualization_prompt[1].body) = 8000

(***************************************************************************)
(* Further properties of runs of main() (checked under Spec)               *)
(***************************************************************************)

\* What the run did on a path, in order.
DoneOn(r, path) ==
    LET at == {i \in 1..Len(run[r].log) : run[r].log[i].arg = path}
    IN  {run[r].log[i].op : i \in at}

\* C21: when an image fails validation, parse_image raises the ValueError
\* 'Image validation failed' having neither read the file nor created a
\* trace, and the vision collaborator is not called for that image.
C21_InvalidImageStopsEarly ==
    \A r \in Runs : \A doc \in Docs :
        (Occurs(run[r].invoked, StageOf(doc))
            /\ FailedChecks(ImageFile(scenario[r], doc)) # {}) =>
            /\ run[r].failed_stage = StageOf(doc)
            /\ run[r].exc[1].type = "ValueError"
            /\ run[r].exc[1].msg[1] = "Image validation failed"
            /\ DoneOn(r, ImagePath(doc)) = {"validate_image"}
            /\ ~Occurs(run[r].collab, StageOf(doc))

\* The amendment image was empty: the run read and sent the original, and
\* has ended having only validated the amendment.
C21_Witness ==
    \E r \in Runs :
        /\ run[r].pc = "done" /\ run[r].failed_stage = "parse_amendment"
        /\ FailedChecks(ImageFile(scenario[r], "amendment")) = {"Image file is empty"}
        /\ DoneOn(r, "original.png") = {"validate_image", "encode_image", "create_trace"}
        /\ DoneOn(r, "amendment.png") = {"validate_image"}

\* C22: a run that returns 0 has emitted one result object, to the output
\* file when --output was given and to stdout otherwise; a run in which a
\* stage failed has emitted none.
C22_OneResultOrNone ==
    \A r \in Runs :
        /\ run[r].exit_code = <<0>> =>
              IF scenario[r].args.output # <<>>
              THEN Len(run[r].output_file) = 1 /\ run[r].stdout = <<>>
              ELSE Len(run[r].stdout) = 1 /\ run[r].output_file = <<>>
        /\ run[r].failed_stage # "" => run[r].stdout = <<>> /\ run[r].output_file = <<>>

\* A run with --output has returned 0, its result in the file.
C22_Witness ==
    \E r \in Runs :
        /\ run[r].pc = "done" /\ run[r].exit_code = <<0>>
        /\ scenario[r].args.output # <<>>
        /\ Len(run[r].output_file) = 1
        /\ DOMAIN run[r].output_file[1] = TopLevelKeys

(***************************************************************************)
(* Properties of runs executing at the same time (checked under            *)
(* SpecConcurrent)                                                         *)
(***************************************************************************)

\* The stage at which a run of scenario sc fails when it executes alone,
\* "" when none does: the first stage whose image or collaborator fails.
SoloFailure(sc) ==
    IF ~(sc.image_ok["original"] /\ sc.vision["original"]) THEN "parse_original"
    ELSE IF ~(sc.image_ok["amendment"] /\ sc.vision["amendment"]) THEN "parse_amendment"
    ELSE IF ~sc.ctx THEN "analyze_documents"
    ELSE IF ~(sc.ext.ok /\ sc.ext.content.syntax = "object" /\ Qualifies(sc.ext.content.data))
    THEN "extract_changes"
    ELSE ""

\* The identifier a run of its own uses: the one given when it is not
\* empty, the run's own uuid otherwise.
OwnId(r, given, n) ==
    IF given = <<>> \/ given = <<<<>>>> THEN <<"uuid", r, n>> ELSE given[1]

\* What run r ends with is what it ends with when it executes alone, under
\* a sink whose calls return.
AsAlone(r) ==
    LET sc == scenario[r]
        failure == SoloFailure(sc)
    IN  /\ run[r].failed_stage = failure
        /\ run[r].exit_code = IF failure = "" THEN <<0>> ELSE <<1>>
        /\ run[r].escaped = <<>>
        /\ run[r].change_output
              = IF failure = "" THEN <<TrimmedRecord(sc.ext.content.data)>> ELSE <<>>
        /\ Len(Emitted(r)) = IF failure = "" THEN 1 ELSE 0
        /\ \A i \in 1..Len(Emitted(r)) :
              /\ Emitted(r)[i].metadata.session_id = OwnId(r, sc.args.session_id, 1)
              /\ Emitted(r)[i].metadata.contract_id = OwnId(r, sc.args.contract_id, 2)
              /\ Emitted(r)[i].sections_changed
                    = TrimmedRecord(sc.ext.content.data).sections_changed
        /\ Len(run[r].stderr) = IF failure = "" THEN 0 ELSE 1

C24_ValidationIdempotent ==
    vpc = "revalidated" =>
        /\ Len(vOut) = 2
        /\ vOut[2].errors = {}
        /\ vOut[2].record = vOut[1].record

\* A candidate with padded elements and a padded summary was accepted, and
\* the trimmed record has been validated again.
C24_Witness ==
    /\ vpc = "revalidated"
    /\ Padded(vIn.summary_of_the_change.v)
    /\ \E i \in 1..Len(vIn.sections_changed.v) : Padded(vIn.sections_changed.v[i])
    /\ vOut[2].record # <<>>
    /\ vOut[2].record[1].summary_of_the_change # vIn.summary_of_the_change.v

\* The constructor has refused the summary.
SummaryRefused == \E e \in vOut[1].errors : e.loc = "summary_of_the_change"

\* C25: the length of the summary is measured after trimming: a summary of
\* 50 characters once trimmed passes, one of 49 is refused, and so is one
\* of 50 or more characters as given that has fewer than 50 once trimmed.
C25_SummaryMeasuredTrimmed ==
    (vpc = "validated" /\ IsStr(vIn.summary_of_the_change)) =>
        LET given == vIn.summary_of_the_change.v
        IN  /\ Len(Trimmed(given)) = 50 => ~SummaryRefused
            /\ Len(Trimmed(given)) = 49 => SummaryRefused /\ vOut[1].record = <<>>
            /\ (Len(given) >= 50 /\ Len(Trimmed(given)) < 50) =>
                  SummaryRefused /\ vOut[1].record = <<>>
            /\ SummaryRefused <=> Len(Trimmed(given)) < 50

\* A summary of 50 characters as given, 49 once trimmed, has been refused
\* in a candidate whose lists are good.
C25_Witness ==
    /\ vpc = "validated" /\ IsStr(vIn.summary_of_the_change)
    /\ Len(vIn.summary_of_the_change.v) = 50
    /\ Len(Trimmed(vIn.summary_of_the_change.v)) = 49
    /\ vOut[1].errors # {}
    /\ \A e \in vOut[1].errors : e.loc = "summary_of_the_change"

\* The calls of one kind and name main() made on its workflow trace.
MainCalls(r, op, name) ==
    {i \in 1..Len(run[r].main_calls) :
        run[r].main_calls[i].op = op /\ run[r].main_calls[i].name = name}

\* C26: under a sink whose calls do not raise, a run that has ended made
\* exactly one workflow_success score on its workflow trace, of value 1.0
\* exactly when main returned 0 and 0.0 exactly when it returned 1, and a
\* workflow_error span exactly when it returned 1.
C26_OneSuccessScore ==
    \A r \in Runs :
        (run[r].pc = "done" /\ sink[r] # "faulty") =>
            /\ run[r].exit_code \in {<<0>>, <<1>>}
            /\ Cardinality(MainCalls(r, "score", "workflow_success")) = 1
            /\ \A i \in MainCalls(r, "score", "workflow_success") :
                  /\ run[r].main_calls[i].value \in {<<0>>, <<1>>}
                  /\ run[r].main_calls[i].value = <<1>> <=> run[r].exit_code = <<0>>
                  /\ run[r].main_calls[i].value = <<0>> <=> run[r].exit_code = <<1>>
            /\ Cardinality(MainCalls(r, "span", "workflow_error")) =
                  (IF run[r].exit_code = <<1>> THEN 1 ELSE 0)

\* Under a working sink a run has returned 1 after a stage failed, with
\* the error span and the score 0.0 on its trace.
C26_Witness ==
    /\ run[Observed].pc = "done" /\ sink[Observed] = "working"
    /\ run[Observed].main_trace = "wrapper"
    /\ run[Observed].exit_code = <<1>>
    /\ run[Observed].failed_stage = "extract_changes"
    /\ MainCalls(Observed, "span", "workflow_error") # {}
    /\ \E i \in MainCalls(Observed, "score", "workflow_success") :
          run[Observed].main_calls[i].value = <<0>>

\* What the first attempt of create_trace raised: the failure of opening
\* the span or, when that went well, of setting the session.
FirstRaised(c) ==
    IF c.start_as_current_span # "returns" THEN c.start_as_current_span
    ELSE c.update_current_trace

\* The second attempt, made through start_as_current_observation, raised.
FallbackRaised(c) ==
    c.start_as_current_observation # "returns" \/ c.update_current_trace # "returns"

\* The Langfuse object behind a trace object has one of the two methods.
Delegates(t, name, alternative) == name \in t.methods \/ alternative \in t.methods

\* What the call of tracing_manager gave: nothing raised, and the object.
Gave(kind) == trc.result = <<[exc |-> <<>>, value |-> <<kind>>]>>

\* create_span and create_generation give a DummyTrace when the call on
\* the trace raises or the trace has neither method.
SpanOrDummy(name, alternative) ==
    /\ trc.trace.kind = "dummy" => Gave("dummy")
    /\ (trc.trace.kind # "dummy" /\ Delegates(trc.trace, name, alternative)
           /\ trc.trace.outcome # "returns") => Gave("dummy")
    /\ (trc.trace.kind = "langfuse" /\ ~Delegates(trc.trace, name, alternative)) =>
           Gave("dummy")

Placeholder ==
    <<"N", "o", " ", "a", "n", "a", "l", "y", "s", "i", "s", " ",
      "p", "r", "o", "v", "i", "d", "e", "d">>

\* C28: extract_changes given a contextualization output without the key
\* 'analysis' builds its request all the same: the request has the three
\* sections, with 'No analysis provided' under the analysis heading and
\* the documents cut to the cap under theirs.
C28_MissingAnalysisPlaceholder ==
    req.pc = "requested_without" =>
        /\ Len(req.extraction_prompt) = 3
        /\ Under(req.extraction_prompt, "CONTEXTUALIZATION ANALYSIS (from Agent 1)")
              = {Placeholder}
        /\ \A body \in Under(req.extraction_prompt, "ORIGINAL CONTRACT") :
              /\ Len(body) = Shorter(Len(req.original_text), 6000)
              /\ IsPrefix(body, req.original_text)
        /\ Under(req.extraction_prompt, "ORIGINAL CONTRACT") # {}
        /\ Under(req.extraction_prompt, "AMENDED CONTRACT") # {}

\* A request has been built from an empty contextualization output and
\* two documents.
C28_Witness ==
    /\ req.pc = "requested_without"
    /\ req.contextualization_output = <<(<<>>)>>
    /\ Len(req.original_text) > 0 /\ Len(req.amendment_text) > 0
    /\ \E i \in 1..Len(req.extraction_prompt) :
          req.extraction_prompt[i].body = Placeholder

\* The original image of the run is good and its amendment image is not.
OnlyAmendmentRefused(r) ==
    /\ FailedChecks(ImageFile(scenario[r], "original")) = {}
    /\ FailedChecks(ImageFile(scenario[r], "amendment")) # {}

\* C29: each image is validated inside its own parse_image call.  With a
\* good original and a bad amendment, the amendment has not been looked
\* at while the original is with the vision collaborator, and the run
\* ends in failure having made that one collaborator call and called
\* neither analyze_documents nor extract_changes.
C29_LazyValidation ==
    \A r \in Runs :
        OnlyAmendmentRefused(r) =>
            /\ run[r].pc = "vision_original" =>
                  /\ DoneOn(r, "amendment.png") = {}
                  /\ run[r].collab = <<"parse_original">>
            /\ run[r].pc = "done" =>
                  /\ run[r].collab = <<"parse_original">>
                  /\ run[r].exit_code # <<0>>
                  /\ ~Occurs(run[r].invoked, "analyze_documents")
                  /\ ~Occurs(run[r].invoked, "extract_changes")

\* Under a working sink the original was parsed and the run has returned
\* 1 on its amendment image, after one collaborator call.
C29_Witness ==
    /\ OnlyAmendmentRefused(Observed) /\ sink[Observed] = "working"
    /\ run[Observed].pc = "done" /\ run[Observed].exit_code = <<1>>
    /\ run[Observed].returned = <<"parse_original">>
    /\ run[Observed].failed_stage = "parse_amendment"
    /\ run[Observed].collab = <<"parse_original">>

\* C30: once main() has started, the run's session_id and contract_id are
\* what the command line makes them (the identifier given when it is not
\* empty, the run's own uuid otherwise) for the rest of the run; every
\* stage called was passed that pair, and the result emitted carries it
\* in its metadata.
C30_IdsFixed ==
    \A r \in Runs :
        run[r].pc # "start" =>
            /\ run[r].session_id = OwnId(r, scenario[r].args.session_id, 1)
            /\ run[r].contract_id = OwnId(r, scenario[r].args.contract_id, 2)
            /\ Len(run[r].passed) = Len(run[r].invoked)
            /\ \A i \in 1..Len(run[r].passed) :
                  /\ run[r].passed[i].session_id = OwnId(r, scenario[r].args.session_id, 1)
                  /\ run[r].passed[i].contract_id = OwnId(r, scenario[r].args.contract_id, 2)
            /\ \A i \in 1..Len(Emitted(r)) :
                  /\ Emitted(r)[i].metadata.session_id
                        = OwnId(r, scenario[r].args.session_id, 1)
                  /\ Emitted(r)[i].metadata.contract_id
                        = OwnId(r, scenario[r].args.contract_id, 2)

\* A run given a session id and an empty contract id has passed the given
\* session id and a uuid to its four stages, and has emitted its result.
C30_Witness ==
    /\ run[Observed].pc = "done" /\ run[Observed].exit_code = <<0>>
    /\ scenario[Observed].args.session_id = <<(<<"arg", 0, 3>>)>>
    /\ scenario[Observed].args.contract_id = <<(<<>>)>>
    /\ Len(run[Observed].passed) = 4
    /\ run[Observed].passed[4].session_id = <<"arg", 0, 3>>
    /\ run[Observed].passed[4].contract_id = <<"uuid", Observed, 2>>
    /\ Len(Emitted(Observed)) = 1

====
